---- MODULE Spec2Model ----
(***************************************************************************)
(* Model of src/src/transpile.ts (class Transpiler): the recursive AST     *)
(* walker that emits C through the Emitter, consults the TypeHelper and    *)
(* the MemoryManager, and accumulates error messages.                      *)
(*                                                                         *)
(* An AST node is a record [kind, text, ty, kids, chars]:                  *)
(*   kind  the ts.SyntaxKind name of the node                              *)
(*   text  the identifier / literal / property name, or the operator token *)
(*   ty    the C type the type oracle gives for an expression              *)
(*   kids  the child nodes the handler of that kind reads                  *)
(*   chars the source text of a string literal, character by character     *)
(* The emitted C is a sequence of text pieces, one per Emitter.emit call   *)
(* (a piece ending in ";\n" is split so that ";\n" is a piece of its own). *)
(***************************************************************************)
EXTENDS Integers, Sequences, FiniteSets, TLC

VARIABLES unit, cap, pc, errors, code, prologue, headers, iter, visits, thrown, result, calls

vars == <<unit, cap, pc, errors, code, prologue, headers, iter, visits, thrown, result, calls>>

(***************************************************************************)
(* Bounds of the input space.                                              *)
(***************************************************************************)
MaxCap == 3

MaxArgs == 2

MaxDecls == 2

\* the number of transpile calls made on one Transpiler
MaxCalls == 2

\* the number of characters and escapes between the quotes of a string literal
MaxItems == 3

(***************************************************************************)
(* AST constructors.                                                       *)
(***************************************************************************)
N(kind, text, ty, kids) == [kind |-> kind, text |-> text, ty |-> ty, kids |-> kids, chars |-> <<>>]

RECURSIVE Flatten(_)

\* the string made of a sequence of characters
Flatten(cs) == IF cs = <<>> THEN "" ELSE Head(cs) \o Flatten(Tail(cs))

NoNode == N("None", "", "", <<>>)

Tok(kind) == N(kind, "", "", <<>>)

Id(name, ty) == N("Identifier", name, ty, <<>>)

Num(t) == N("NumericLiteral", t, "int16_t", <<>>)

\* a string literal holds its source text, quotes included, as characters
Str(cs) == [kind |-> "StringLiteral", text |-> Flatten(cs), ty |-> "char *", kids |-> <<>>, chars |-> cs]

Bin(op, ty, l, r) == N("BinaryExpression", op, ty, <<l, r>>)

Prop(e, name, ty) == N("PropertyAccessExpression", name, ty, <<e>>)

Elem(e, arg, ty) == N("ElementAccessExpression", "", ty, <<e, arg>>)

Call(callee, args, ty) == N("CallExpression", "", ty, <<callee>> \o args)

Paren(e) == N("ParenthesizedExpression", "", e.ty, <<e>>)

Prefix(op, e, ty) == N("PrefixUnaryExpression", op, ty, <<e>>)

Postfix(op, e) == N("PostfixUnaryExpression", op, "int16_t", <<e>>)

PropAssign(name, e) == N("PropertyAssignment", name, "", <<e>>)

ObjLit(props) == N("ObjectLiteralExpression", "", "struct", props)

ArrLit(elems) == N("ArrayLiteralExpression", "", "array", elems)

ExprStmt(e) == N("ExpressionStatement", "", "", <<e, Tok("SemicolonToken")>>)

VarDecl(name, init) == N("VariableDeclaration", name, "", <<init>>)

VarStmt(decls) == N("VariableStatement", "", "", decls)

DeclList(decls) == N("VariableDeclarationList", "", "", decls)

Block(stmts) == N("Block", "", "", stmts)

Ret(e) == N("ReturnStatement", "", "", <<e>>)

IfStmt(c, t, e) == N("IfStatement", "", "", <<c, t, e>>)

WhileStmt(c, body) == N("WhileStatement", "", "", <<c, body>>)

DoStmt(body, c) == N("DoStatement", "", "", <<body, c>>)

ForStmt(init, cond, incr, body) == N("ForStatement", "", "", <<init, cond, incr, body>>)

ForOf(init, iterand, body) == N("ForOfStatement", "", "", <<init, iterand, body>>)

ForIn(init, e, body) == N("ForInStatement", "", "", <<init, e, body>>)

Param(name, ty) == N("Parameter", name, ty, <<>>)

Func(name, retTy, params, stmts) == N("FunctionDeclaration", name, retTy, <<N("Parameters", "", "", params), Block(stmts)>>)

SourceFile(stmts) == N("SourceFile", "", "", <<N("SyntaxList", "", "", stmts), Tok("EndOfFileToken")>>)

(***************************************************************************)
(* TypeHelper (./types, not part of the walker): the variable registry.    *)
(* One name per kind of registry entry; "u" has no entry.  An array's      *)
(* capacity is the input cap.  requiresAllocation holds exactly for struct *)
(* and array types.                                                        *)
(***************************************************************************)
NoInfo == [name |-> "", type |-> "none", requiresAllocation |-> FALSE, isDynamicArray |-> FALSE]

GetVariableInfo(name) ==
    CASE name = "n" -> [name |-> "n", type |-> "int16_t", requiresAllocation |-> FALSE, isDynamicArray |-> FALSE]
      [] name = "m" -> [name |-> "m", type |-> "int16_t", requiresAllocation |-> FALSE, isDynamicArray |-> FALSE]
      [] name = "s" -> [name |-> "s", type |-> "char *", requiresAllocation |-> FALSE, isDynamicArray |-> FALSE]
      [] name = "d" -> [name |-> "d", type |-> "array", requiresAllocation |-> TRUE, isDynamicArray |-> TRUE]
      [] name = "f" -> [name |-> "f", type |-> "array", requiresAllocation |-> TRUE, isDynamicArray |-> FALSE]
      [] name = "p" -> [name |-> "p", type |-> "struct", requiresAllocation |-> TRUE, isDynamicArray |-> FALSE]
      [] OTHER -> NoInfo

\* getVariableInfo on an arbitrary node: an entry only for an identifier in the registry
GetVariableInfoOf(node) == IF node.kind = "Identifier" THEN GetVariableInfo(node.text) ELSE NoInfo

HasInfo(info) == info.type # "none"

IsArrayType(info) == info.type = "array"

Digit(d) ==
    CASE d = 0 -> "0" [] d = 1 -> "1" [] d = 2 -> "2" [] d = 3 -> "3" [] d = 4 -> "4"
      [] d = 5 -> "5" [] d = 6 -> "6" [] d = 7 -> "7" [] d = 8 -> "8" [] d = 9 -> "9"

RECURSIVE ToDecimal(_)

\* number + "" of JavaScript, for a natural number
ToDecimal(n) == IF n < 10 THEN Digit(n) ELSE ToDecimal(n \div 10) \o Digit(n % 10)

\* arrayType.capacity + "": the capacity of an array type, "undefined" for any other type
CapacityText(info, c) == IF IsArrayType(info) THEN ToDecimal(c) ELSE "undefined"

\* getTypeString(cType) || "void *", then the {var} substitution or the appended name
DeclarationText(info, name, c) ==
    CASE ~HasInfo(info) -> "void * " \o name
      [] info.type = "array" /\ info.isDynamicArray -> "struct array_int16_t_t " \o name
      [] info.type = "array" /\ ~info.isDynamicArray -> "int16_t " \o name \o "[" \o ToDecimal(c) \o "]"
      [] info.type = "struct" -> "struct struct_t * " \o name
      [] OTHER -> info.type \o " " \o name

\* addNewIteratorVariable: a name unique in the translation unit
IteratorName(k) == "iterator_" \o ToDecimal(k)

(***************************************************************************)
(* The walker's state st: the Transpiler's errors, the Emitter's buffers   *)
(* (code: the default target; prologue: emitToBeginningOfFunction;         *)
(* headers: emitPredefinedHeader), the iterator counter, whether an        *)
(* exception is propagating (thrown), and the history of transpileNode     *)
(* calls (visits: the node, its parent's kind, and the length of code at   *)
(* entry and at return).  Once thrown, every later operation of the walk   *)
(* is skipped.                                                             *)
(***************************************************************************)
Emit(st, t) == IF st.thrown THEN st ELSE [st EXCEPT !.code = Append(@, t)]

EmitToBeginningOfFunction(st, t) == IF st.thrown THEN st ELSE [st EXCEPT !.prologue = Append(@, t)]

EmitOnceToBeginningOfFunction(st, t) ==
    IF st.thrown \/ (\E i \in 1..Len(st.prologue) : st.prologue[i] = t) THEN st
    ELSE [st EXCEPT !.prologue = Append(@, t)]

EmitPredefinedHeader(st, key) == IF st.thrown THEN st ELSE [st EXCEPT !.headers = @ \cup {key}]

AddError(st, e) == IF st.thrown THEN st ELSE [st EXCEPT !.errors = Append(@, e)]

\* a TypeError raised by reading a property of undefined
Throw(st) == [st EXCEPT !.thrown = TRUE]

\* the marker of MemoryManager.insertDestructorsIfNecessary(scope, emitter)
Destructors(scope) == "@destructors:" \o scope.kind \o ":" \o scope.text

InsertDestructorsIfNecessary(st, scope) == Emit(st, Destructors(scope))

InsertGCVariablesCreationIfNecessary(st, scope) == Emit(st, "@gcvars:" \o scope.kind \o ":" \o scope.text)

InsertGlobalPointerIfNecessary(st, expr) == Emit(st, "@globalptr:" \o expr)

\* transpiledCode[t] = transpiledCode[t].replace(/;\n$/, '')
StripTrailingSemicolon(st) ==
    IF st.thrown \/ Len(st.code) = 0 \/ st.code[Len(st.code)] # ";\n" THEN st
    ELSE [st EXCEPT !.code = SubSeq(@, 1, Len(@) - 1)]

\* the entry of a transpileNode call: end is 0 until the call returns
Visit(st, node, pk) ==
    [st EXCEPT !.visits = Append(@, [node |-> node, pk |-> pk, at |-> Len(st.code), end |-> 0])]

\* the return of the transpileNode call recorded as visit k: end is the length of the
\* code at that moment; a call left by an exception does not return
Leave(st, k) == IF st.thrown THEN st ELSE [st EXCEPT !.visits[k].end = Len(st.code)]

RECURSIVE EmitSeq(_, _)

\* consecutive emitter.emit calls
EmitSeq(st, ts) == IF ts = <<>> THEN st ELSE EmitSeq(Emit(st, Head(ts)), Tail(ts))

(***************************************************************************)
(* transpileNode, one operator per case of its switch.                     *)
(***************************************************************************)
RECURSIVE T(_, _, _)

RECURSIVE ForEach(_, _, _)

\* nodes.forEach(c => this.transpileNode(c)) for the children of a node of kind pk
ForEach(nodes, pk, st) == IF nodes = <<>> THEN st ELSE ForEach(Tail(nodes), pk, T(Head(nodes), pk, st))

\* node.getChildren() of the TypeScript API: a block's braces are children of it
GetChildren(node) ==
    IF node.kind = "Block"
    THEN <<Tok("OpenBraceToken"), N("SyntaxList", "", "", node.kids), Tok("CloseBraceToken")>>
    ELSE node.kids

RECURSIVE JoinParams(_)

\* parameters.join(', ') of the "<type> <name>" strings
JoinParams(ps) ==
    IF ps = <<>> THEN ""
    ELSE IF Len(ps) = 1 THEN ps[1].ty \o " " \o ps[1].text
    ELSE ps[1].ty \o " " \o ps[1].text \o ", " \o JoinParams(Tail(ps))

\* an epilogue that does not look at the last statement
FunctionEpilogueAlways(node, stmts, st) ==
    IF Len(stmts) = 0 THEN Throw(st) ELSE InsertDestructorsIfNecessary(st, node)

\* the end of a function body: statements[length - 1].kind of an empty body reads a
\* property of undefined
FunctionEpilogue(node, stmts, st) ==
    IF Len(stmts) = 0 THEN Throw(st)
    ELSE IF stmts[Len(stmts)].kind # "ReturnStatement" THEN InsertDestructorsIfNecessary(st, node)
    ELSE st

TFunctionDeclaration(node, st) ==
    LET params == node.kids[1].kids
        stmts == node.kids[2].kids
        s1 == EmitSeq(st, <<"@beginFunction", node.ty, " ", node.text, "(", JoinParams(params), ")\n", "{\n", "@beginFunctionBody">>)
        s2 == InsertGCVariablesCreationIfNecessary(s1, node)
        s3 == ForEach(stmts, "Block", s2)
        s4 == FunctionEpilogue(node, stmts, s3)
    IN  EmitSeq(s4, <<"}\n", "@finalizeFunction">>)

TVariableStatement(node, st) == ForEach(node.kids, "VariableDeclarationList", st)

\* Math.max(cType.capacity * 2, 4)
\* a reserve that is twice the capacity, without the floor
OptimizedCapDoubling(c) == c * 2

OptimizedCap(c) == IF c * 2 > 4 THEN c * 2 ELSE 4

\* if (varInfo.requiresAllocation) { ... }: varInfo may be undefined
Allocate(name, info, st) ==
    IF ~HasInfo(info) THEN Throw(st)
    ELSE IF ~info.requiresAllocation THEN st
    ELSE IF IsArrayType(info)
    THEN LET s1 == EmitSeq(st, <<"ARRAY_CREATE(" \o info.name \o ", " \o ToDecimal(OptimizedCap(cap)) \o ", " \o ToDecimal(cap) \o ")", ";\n">>)
             s2 == EmitPredefinedHeader(EmitPredefinedHeader(s1, "asserth"), "stdlibh")
         IN  InsertGlobalPointerIfNecessary(s2, info.name \o ".data")
    ELSE LET s1 == EmitSeq(st, <<info.name, " = ", "malloc(sizeof(*" \o info.name \o "))", ";\n", "assert(" \o info.name \o " != NULL)", ";\n">>)
             s2 == EmitPredefinedHeader(EmitPredefinedHeader(s1, "asserth"), "stdlibh")
         IN  InsertGlobalPointerIfNecessary(s2, info.name)

RECURSIVE TranspileObjectLiteralAssignment(_, _, _)

TranspileObjectLiteralAssignment(varString, props, st) ==
    IF props = <<>> THEN st
    ELSE LET p == Head(props)
             s1 == EmitSeq(st, <<varString \o "->", p.text, " = ">>)
             s2 == T(p.kids[1], "PropertyAssignment", s1)
         IN  TranspileObjectLiteralAssignment(varString, Tail(props), Emit(s2, ";\n"))

RECURSIVE TranspileArrayLiteralAssignment(_, _, _, _)

\* i is the index of the first element of elems in the literal
TranspileArrayLiteralAssignment(varString, elems, i, st) ==
    IF elems = <<>> THEN st
    ELSE LET s1 == EmitSeq(st, <<varString, "[" \o ToDecimal(i) \o "]", " = ">>)
             s2 == T(Head(elems), "ArrayLiteralExpression", s1)
         IN  TranspileArrayLiteralAssignment(varString, Tail(elems), i + 1, Emit(s2, ";\n"))

\* if (varDecl.initializer) { ... }
Initialize(node, info, st) ==
    LET init == node.kids[1]
    IN  IF init.kind = "None" THEN st
        ELSE IF init.kind = "ObjectLiteralExpression"
        THEN TranspileObjectLiteralAssignment(node.text, init.kids, st)
        ELSE IF init.kind = "ArrayLiteralExpression"
        THEN TranspileArrayLiteralAssignment(IF info.isDynamicArray THEN info.name \o ".data" ELSE info.name, init.kids, 0, st)
        ELSE Emit(T(init, "VariableDeclaration", EmitSeq(st, <<node.text, " = ">>)), ";\n")

TVariableDeclaration(node, st) ==
    LET info == GetVariableInfo(node.text)
        s1 == EmitToBeginningOfFunction(st, DeclarationText(info, node.text, cap))
        s2 == EmitToBeginningOfFunction(s1, ";\n")
        s3 == Allocate(node.text, info, s2)
    IN  Initialize(node, info, s3)

TBlock(node, st) ==
    LET s1 == Emit(st, "{\n")
        s2 == ForEach(GetChildren(node), "Block", s1)
    IN  Emit(s2, "}\n")

TIfStatement(node, st) ==
    LET s1 == Emit(st, "if (")
        s2 == T(node.kids[1], "IfStatement", s1)
        s3 == Emit(s2, ")\n")
        s4 == T(node.kids[2], "IfStatement", s3)
    IN  IF node.kids[3].kind # "None"
        THEN T(node.kids[3], "IfStatement", Emit(s4, "else\n"))
        ELSE s4

\* a loop body: the statements of a block, or the single statement
TBody(body, pk, st) ==
    IF body.kind = "Block" THEN ForEach(body.kids, "Block", st) ELSE T(body, pk, st)

\* node.getText(): the source text of a leaf or of a declaration without initializer;
\* of any other node, a placeholder for its source text
GetText(node) ==
    IF node.kind \in {"Identifier", "NumericLiteral", "StringLiteral", "VariableDeclaration"} THEN node.text
    ELSE "<" \o node.kind \o ">"

\* a hoisting that forgets to clear the initializer of a hoisted last declaration
ForHoistKeepingInitializer(node, st) ==
    LET init == node.kids[1]
    IN  IF init.kind = "VariableDeclarationList"
        THEN LET decls == init.kids
                 n == Len(decls)
                 s1 == ForEach(SubSeq(decls, 1, n - 1), "VariableDeclarationList", st)
                 info == GetVariableInfo(decls[n].text)
             IN  IF ~HasInfo(info) THEN [st |-> Throw(s1), init |-> NoNode]
                 ELSE IF info.requiresAllocation
                 THEN [st |-> T(decls[n], "VariableDeclarationList", s1), init |-> decls[n]]
                 ELSE [st |-> s1, init |-> decls[n]]
        ELSE [st |-> st, init |-> init]

\* a hoisting that leaves every last declaration in the loop header
ForHoistNever(node, st) ==
    LET init == node.kids[1]
    IN  IF init.kind = "VariableDeclarationList"
        THEN LET decls == init.kids
                 n == Len(decls)
                 s1 == ForEach(SubSeq(decls, 1, n - 1), "VariableDeclarationList", st)
                 info == GetVariableInfo(decls[n].text)
             IN  IF ~HasInfo(info) THEN [st |-> Throw(s1), init |-> NoNode]
                 ELSE [st |-> s1, init |-> decls[n]]
        ELSE [st |-> st, init |-> init]

\* the declarations of a for initializer: all but the last are transpiled before the
\* loop; the last one too when it requires allocation, else it is the initializer
ForHoist(node, st) ==
    LET init == node.kids[1]
    IN  IF init.kind = "VariableDeclarationList"
        THEN LET decls == init.kids
                 n == Len(decls)
                 s1 == ForEach(SubSeq(decls, 1, n - 1), "VariableDeclarationList", st)
                 info == GetVariableInfo(decls[n].text)
             IN  IF ~HasInfo(info) THEN [st |-> Throw(s1), init |-> NoNode]
                 ELSE IF info.requiresAllocation
                 THEN [st |-> T(decls[n], "VariableDeclarationList", s1), init |-> NoNode]
                 ELSE [st |-> s1, init |-> decls[n]]
        ELSE [st |-> st, init |-> init]

TForStatement(node, st) ==
    LET h == ForHoist(node, st)
        s1 == Emit(h.st, "for (")
        s2 == IF h.init.kind # "None"
              THEN StripTrailingSemicolon(T(h.init, IF h.init.kind = "VariableDeclaration" THEN "VariableDeclarationList" ELSE "ForStatement", s1))
              ELSE s1
        s3 == Emit(s2, ";")
        s4 == IF node.kids[2].kind # "None" THEN T(node.kids[2], "ForStatement", s3) ELSE s3
        s5 == Emit(s4, ";")
        s6 == IF node.kids[3].kind # "None" THEN T(node.kids[3], "ForStatement", s5) ELSE s5
        s7 == EmitSeq(s6, <<")\n", "{\n">>)
        s8 == TBody(node.kids[4], "ForStatement", s7)
    IN  Emit(s8, "}\n")

\* "for (" + iteratorVarName + " = 0; " + iteratorVarName + " < " + arraySize + "; " + iteratorVarName + "++)\n"
ForOfHeader(name, arraySize) ==
    "for (" \o name \o " = 0; " \o name \o " < " \o arraySize \o "; " \o name \o "++)\n"

\* the loop of a for-of over the identifier iterand, once the iterator is declared
ForOfLoop(node, name, st) ==
    LET iterand == node.kids[2]
        info == GetVariableInfo(iterand.text)
    IN  IF ~HasInfo(info) THEN Throw(st)
        ELSE LET arraySize == IF info.isDynamicArray THEN iterand.text \o ".size" ELSE CapacityText(info, cap)
                 arrayAccess == IF info.isDynamicArray THEN iterand.text \o ".data" ELSE iterand.text
                 s2 == EmitSeq(st, <<ForOfHeader(name, arraySize), "{\n">>)
                 init == node.kids[1]
             IN  IF init.kind # "VariableDeclarationList" THEN Throw(s2)
                 ELSE LET decl == init.kids[1]
                          s3 == T(decl, "VariableDeclarationList", s2)
                          s4 == EmitSeq(s3, <<GetText(decl) \o " = " \o arrayAccess \o "[" \o name \o "]", ";\n">>)
                          s5 == TBody(node.kids[3], "ForOfStatement", s4)
                      IN  Emit(s5, "}\n")

TForOfStatement(node, st) ==
    IF node.kids[2].kind # "Identifier"
    THEN AddError(st, "Unsupported type of expression as array in for of: " \o GetText(node))
    ELSE LET name == IteratorName(st.iter + 1)
             s1 == EmitOnceToBeginningOfFunction([st EXCEPT !.iter = @ + 1], "int16_t " \o name \o ";\n")
         IN  ForOfLoop(node, name, s1)

TForInStatement(node, st) == AddError(st, "For-in statement is not yet supported!")

TWhileStatement(node, st) ==
    LET s1 == Emit(st, "while (")
        s2 == T(node.kids[1], "WhileStatement", s1)
        s3 == EmitSeq(s2, <<")", "{\n">>)
        s4 == TBody(node.kids[2], "WhileStatement", s3)
    IN  Emit(s4, "}\n")

TDoStatement(node, st) ==
    LET s1 == Emit(st, "do {\n")
        s2 == TBody(node.kids[1], "DoStatement", s1)
        s3 == Emit(s2, "} while (")
        s4 == T(node.kids[2], "DoStatement", s3)
    IN  EmitSeq(s4, <<")", ";\n">>)

TReturnStatement(node, st) ==
    LET s1 == InsertDestructorsIfNecessary(st, node)
        s2 == Emit(s1, "return")
        s3 == IF node.kids[1].kind # "None" THEN T(node.kids[1], "ReturnStatement", Emit(s2, " ")) ELSE s2
    IN  Emit(s3, ";\n")

TExpressionStatement(node, st) == Emit(ForEach(GetChildren(node), "ExpressionStatement", st), ";\n")

RECURSIVE PrintfAll(_, _)

\* the format of one console.log argument, from its static type
PrintfFormat(arg) == IF arg.ty = "char *" THEN "\"%s\"" ELSE "\"%d\""

\* PrintfTranspiler.transpile (./printf) for each argument of console.log: a printf
\* call; a literal string is its format string, any other argument is a dynamic
\* fragment, transpiled through transpileNode
PrintfAll(args, st) ==
    IF args = <<>> THEN st
    ELSE LET arg == Head(args)
             s1 == Emit(st, "printf(")
             s2 == IF arg.kind = "StringLiteral" THEN T(arg, "CallExpression", s1)
                   ELSE T(arg, "CallExpression", EmitSeq(s1, <<PrintfFormat(arg), ", ">>))
         IN  PrintfAll(Tail(args), Emit(s2, ")"))

RECURSIVE TArguments(_, _)

\* the arguments of a generic call, separated by ", "
TArguments(args, st) ==
    IF args = <<>> THEN st
    ELSE LET s1 == T(Head(args), "CallExpression", st)
         IN  IF Len(args) = 1 THEN s1 ELSE TArguments(Tail(args), Emit(s1, ", "))

TCallExpression(node, st) ==
    LET callee == node.kids[1]
        args == Tail(node.kids)
        onId == callee.kind = "PropertyAccessExpression" /\ callee.kids[1].kind = "Identifier"
        info == IF onId THEN GetVariableInfo(callee.kids[1].text) ELSE NoInfo
    IN  IF onId /\ callee.kids[1].text = "console" /\ callee.text = "log"
        THEN PrintfAll(args, EmitPredefinedHeader(st, "stdioh"))
        ELSE IF onId /\ callee.text = "push" /\ Len(args) = 1 /\ IsArrayType(info)
        THEN LET s1 == EmitSeq(EmitPredefinedHeader(st, "array"), <<"ARRAY_PUSH(", callee.kids[1].text, ",">>)
             IN  Emit(T(args[1], "CallExpression", s1), ")")
        ELSE IF onId /\ callee.text = "pop" /\ Len(args) = 0 /\ IsArrayType(info)
        THEN EmitSeq(EmitPredefinedHeader(st, "array_pop"), <<"ARRAY_POP(", callee.kids[1].text, ")">>)
        ELSE LET s1 == Emit(T(callee, "CallExpression", st), "(")
             IN  Emit(TArguments(args, s1), ")")

\* a lowering that treats every array as dynamic
LengthLoweringAlwaysSize(id, info, st) == EmitSeq(st, <<id, ".", "size">>)

\* the text of <id>.length for an array-typed identifier
LengthLowering(id, info, st) ==
    IF info.isDynamicArray THEN EmitSeq(st, <<id, ".", "size">>)
    ELSE Emit(st, CapacityText(info, cap))

TPropertyAccessExpression(node, st) ==
    LET e == node.kids[1]
        info == IF e.kind = "Identifier" /\ node.text = "length" THEN GetVariableInfo(e.text) ELSE NoInfo
    IN  IF IsArrayType(info) THEN LengthLowering(e.text, info, st)
        ELSE EmitSeq(T(e, "PropertyAccessExpression", st), <<"->", node.text>>)

TElementAccessExpression(node, st) ==
    LET e == node.kids[1]
        arg == node.kids[2]
        info == IF e.kind = "Identifier" THEN GetVariableInfo(e.text) ELSE NoInfo
    IN  IF e.kind = "Identifier" /\ arg.kind = "StringLiteral"
        THEN EmitSeq(st, <<e.text, "->", Flatten(SubSeq(arg.chars, 2, Len(arg.chars) - 1))>>)
        ELSE IF IsArrayType(info)
        THEN LET s1 == Emit(st, e.text)
                 s2 == IF info.isDynamicArray THEN Emit(s1, ".data") ELSE s1
             IN  Emit(T(arg, "ElementAccessExpression", Emit(s2, "[")), "]")
        ELSE LET s1 == T(e, "ElementAccessExpression", Emit(st, "js_get("))
             IN  Emit(T(arg, "ElementAccessExpression", Emit(s1, ", ")), ")")

\* token.getText() of an operator token
TokenText(op) ==
    CASE op = "PercentToken" -> "%"
      [] op = "AmpersandAmpersandToken" -> "&&"
      [] op = "ExclamationEqualsToken" -> "!="
      [] op = "MinusToken" -> "-"
      [] OTHER -> op

SupportedOperators ==
    {"GreaterThanEqualsToken", "GreaterThanToken", "LessThanEqualsToken", "LessThanToken",
     "EqualsEqualsEqualsToken", "EqualsEqualsToken", "PlusToken", "MinusToken",
     "AsteriskToken", "SlashToken", "EqualsToken"}

\* the C text of a supported operator token
OperatorText(op) ==
    CASE op = "GreaterThanEqualsToken" -> " >= "
      [] op = "GreaterThanToken" -> " > "
      [] op = "LessThanEqualsToken" -> " <= "
      [] op = "LessThanToken" -> " < "
      [] op = "EqualsEqualsEqualsToken" -> " == "
      [] op = "EqualsEqualsToken" -> " == "
      [] op = "PlusToken" -> " + "
      [] op = "MinusToken" -> " - "
      [] op = "AsteriskToken" -> " * "
      [] op = "SlashToken" -> " / "
      [] op = "EqualsToken" -> " = "
      [] OTHER -> "<unsupported operator>"

\* this.emitter.emit(this.convertOperatorToken(token)): the error is recorded before
\* the returned text is emitted
EmitOperatorToken(op, st) ==
    IF op \in SupportedOperators THEN Emit(st, OperatorText(op))
    ELSE Emit(AddError(st, "Unsupported operator: " \o TokenText(op)), OperatorText(op))

\* a test that sends == to js_eq only when neither operand is an int16_t
NeedsJsEqNeither(leftType, rightType) == leftType # "int16_t" /\ rightType # "int16_t"

\* (leftType != 'int16_t' || rightType != 'int16_t')
NeedsJsEq(leftType, rightType) == leftType # "int16_t" \/ rightType # "int16_t"

TBinaryExpression(node, pk, st) ==
    LET l == node.kids[1]
        r == node.kids[2]
        op == node.text
    IN  IF op = "EqualsEqualsToken" /\ l.ty = "char *" /\ r.ty = "char *"
        THEN LET s1 == T(l, "BinaryExpression", Emit(st, "strcmp("))
                 s2 == T(r, "BinaryExpression", Emit(s1, ", "))
             IN  EmitPredefinedHeader(Emit(s2, ") == 0"), "stringh")
        ELSE IF op = "EqualsEqualsToken" /\ NeedsJsEq(l.ty, r.ty)
        THEN LET s1 == T(l, "BinaryExpression", Emit(EmitPredefinedHeader(st, "js_eq"), "js_eq("))
                 s2 == T(r, "BinaryExpression", Emit(s1, ", "))
             IN  Emit(s2, ")")
        ELSE IF op = "EqualsToken" /\ pk # "ExpressionStatement"
        THEN AddError(st, "Assignments inside expressions are not yet supported.")
        ELSE IF op = "EqualsToken" /\ r.kind = "ObjectLiteralExpression"
        THEN IF HasInfo(GetVariableInfoOf(l))
             THEN TranspileObjectLiteralAssignment(GetVariableInfoOf(l).name, r.kids, st)
             ELSE AddError(st, "Only variable, element access or property access are supported as left hand side expression in assignment of ObjectLiteralExpression.")
        ELSE IF op = "EqualsToken" /\ r.kind = "ArrayLiteralExpression"
        THEN IF HasInfo(GetVariableInfoOf(l))
             THEN TranspileArrayLiteralAssignment(GetVariableInfoOf(l).name, r.kids, 0, st)
             ELSE AddError(st, "Only variable, element access or property access are supported as left hand side expression in assignment of ArrayLiteralExpression.")
        ELSE LET s1 == T(l, "BinaryExpression", st)
             IN  T(r, "BinaryExpression", EmitOperatorToken(op, s1))

TranspileStringExpression(node, st) ==
    IF node.kind # "Identifier"
    THEN Emit(T(node, "PrefixUnaryExpression", Emit(st, "(")), ")")
    ELSE Emit(st, node.text)

TPrefixUnaryExpression(node, st) ==
    LET operand == node.kids[1]
    IN  IF node.text = "ExclamationToken"
        THEN IF operand.ty = "char *"
             THEN LET s1 == TranspileStringExpression(operand, Emit(st, "(!"))
                      s2 == TranspileStringExpression(operand, Emit(s1, " || !"))
                  IN  Emit(s2, "[0])")
             ELSE T(operand, "PrefixUnaryExpression", Emit(st, "!"))
        ELSE AddError(st, "Non-supported unary operator: " \o node.kind)

TPostfixUnaryExpression(node, st) ==
    LET s1 == T(node.kids[1], "PostfixUnaryExpression", st)
    IN  IF node.text = "MinusMinusToken" THEN Emit(s1, "--")
        ELSE IF node.text = "PlusPlusToken" THEN Emit(s1, "++")
        ELSE AddError(s1, "Non-supported postfix unary operator: " \o node.kind)

RECURSIVE EscapeDoubleQuotes(_)

\* s.replace(/"/g, '\\"')
EscapeDoubleQuotes(cs) ==
    IF cs = <<>> THEN <<>>
    ELSE IF Head(cs) = "\"" THEN <<"\\", "\"">> \o EscapeDoubleQuotes(Tail(cs))
    ELSE <<Head(cs)>> \o EscapeDoubleQuotes(Tail(cs))

RECURSIVE UnescapeSingleQuotes(_)

\* s.replace(/([^\\])\\'/g, "$1'"): the matches are found left to right and do not overlap
UnescapeSingleQuotes(cs) ==
    IF cs = <<>> THEN <<>>
    ELSE IF Len(cs) >= 3 /\ cs[1] # "\\" /\ cs[2] = "\\" /\ cs[3] = "'"
    THEN <<cs[1], "'">> \o UnescapeSingleQuotes(SubSeq(cs, 4, Len(cs)))
    ELSE <<Head(cs)>> \o UnescapeSingleQuotes(Tail(cs))

ConvertString(cs) ==
    IF Len(cs) > 0 /\ cs[1] = "'"
    THEN LET t == UnescapeSingleQuotes(EscapeDoubleQuotes(cs))
         IN  <<"\"">> \o SubSeq(t, 2, Len(t) - 1) \o <<"\"">>
    ELSE cs

T(node, pk, st) ==
    IF st.thrown THEN st
    ELSE LET s0 == Visit(st, node, pk)
         IN  Leave(
             CASE node.kind = "FunctionDeclaration" -> TFunctionDeclaration(node, s0)
               [] node.kind = "VariableStatement" -> TVariableStatement(node, s0)
               [] node.kind = "VariableDeclaration" -> TVariableDeclaration(node, s0)
               [] node.kind = "Block" -> TBlock(node, s0)
               [] node.kind = "IfStatement" -> TIfStatement(node, s0)
               [] node.kind = "ForStatement" -> TForStatement(node, s0)
               [] node.kind = "ForOfStatement" -> TForOfStatement(node, s0)
               [] node.kind = "ForInStatement" -> TForInStatement(node, s0)
               [] node.kind = "WhileStatement" -> TWhileStatement(node, s0)
               [] node.kind = "DoStatement" -> TDoStatement(node, s0)
               [] node.kind = "ReturnStatement" -> TReturnStatement(node, s0)
               [] node.kind = "ExpressionStatement" -> TExpressionStatement(node, s0)
               [] node.kind = "CallExpression" -> TCallExpression(node, s0)
               [] node.kind = "PropertyAccessExpression" -> TPropertyAccessExpression(node, s0)
               [] node.kind = "ElementAccessExpression" -> TElementAccessExpression(node, s0)
               [] node.kind = "BinaryExpression" -> TBinaryExpression(node, pk, s0)
               [] node.kind = "PrefixUnaryExpression" -> TPrefixUnaryExpression(node, s0)
               [] node.kind = "PostfixUnaryExpression" -> TPostfixUnaryExpression(node, s0)
               [] node.kind = "TrueKeyword" -> EmitPredefinedHeader(Emit(s0, "TRUE"), "bool")
               [] node.kind = "FalseKeyword" -> Emit(EmitPredefinedHeader(s0, "bool"), "FALSE")
               [] node.kind = "NullKeyword" -> Emit(s0, "NULL")
               [] node.kind = "NumericLiteral" -> Emit(s0, GetText(node))
               [] node.kind = "StringLiteral" -> Emit(s0, Flatten(ConvertString(node.chars)))
               [] node.kind = "Identifier" -> Emit(s0, GetText(node))
               [] node.kind \in {"SourceFile", "SyntaxList", "EndOfFileToken"} -> ForEach(GetChildren(node), node.kind, s0)
               [] node.kind = "SemicolonToken" -> s0
               [] OTHER -> AddError(s0, "Non-supported node: " \o node.kind),
             Len(s0.visits))

(***************************************************************************)
(* Transpiler.transpile and the instance it runs on.                       *)
(***************************************************************************)
RECURSIVE JoinLines(_)

\* errors.join("\n")
JoinLines(es) ==
    IF es = <<>> THEN ""
    ELSE IF Len(es) = 1 THEN es[1]
    ELSE es[1] \o "\n" \o JoinLines(Tail(es))

HeaderOrder == <<"array", "array_pop", "asserth", "bool", "js_eq", "stdioh", "stdlibh", "stringh">>

RECURSIVE HeaderText(_, _)

HeaderText(keys, hs) ==
    IF keys = <<>> THEN ""
    ELSE (IF Head(keys) \in hs THEN "#include <" \o Head(keys) \o ">\n" ELSE "") \o HeaderText(Tail(keys), hs)

\* Emitter.finalize (./emit): the headers in order, then the emitted text
Finalize(st) == HeaderText(HeaderOrder, st.headers) \o Flatten(st.prologue) \o Flatten(st.code) \o "\n"

\* the body of transpile up to its return statement
Walk(u, st) ==
    LET s1 == InsertGCVariablesCreationIfNecessary(st, NoNode)
        s2 == T(u, "None", s1)
    IN  InsertDestructorsIfNecessary(s2, u)

\* a return that ignores the recorded errors
TranspileResultIgnoringErrors(st) ==
    IF st.thrown THEN [kind |-> "exception", text |-> ""]
    ELSE [kind |-> "finalize", text |-> Finalize(st)]

\* if (this.errors.length) return this.errors.join("\n"); else return this.emitter.finalize();
TranspileResult(st) ==
    IF st.thrown THEN [kind |-> "exception", text |-> ""]
    ELSE IF Len(st.errors) # 0 THEN [kind |-> "errors", text |-> JoinLines(st.errors)]
    ELSE [kind |-> "finalize", text |-> Finalize(st)]

(***************************************************************************)
(* The input units.                                                        *)
(***************************************************************************)
IdN == Id("n", "int16_t")

IdS == Id("s", "char *")

IdD == Id("d", "array")

IdF == Id("f", "array")

IdP == Id("p", "struct")

IdU == Id("u", "void *")

Num1 == Num("1")

StrA == Str(<<"'", "a", "'">>)

Operands == {IdN, IdS, Num1, StrA, IdP}

\* the type the oracle gives a binary expression
BinType(op, l, r) ==
    CASE op \in {"EqualsEqualsToken", "LessThanToken"} -> "uint8_t"
      [] op = "EqualsToken" -> r.ty
      [] op = "PlusToken" /\ (l.ty = "char *" \/ r.ty = "char *") -> "char *"
      [] OTHER -> "int16_t"

B(op, l, r) == Bin(op, BinType(op, l, r), l, r)

ArgLists == UNION {[1..k -> {Num1, IdS}] : k \in 0..MaxArgs}

Bins ==
    {B(op, l, r) : op \in {"EqualsEqualsToken", "PlusToken", "PercentToken", "LessThanToken"}, l \in Operands, r \in Operands}
    \cup {B("EqualsToken", l, r) : l \in {IdN, IdS, IdP}, r \in Operands}

\* one operand of each C type the oracle gives
EqOperands == {IdN, IdS, IdP, IdD, IdU, Id("b", "uint8_t")}

Equalities == {B("EqualsEqualsToken", l, r) : l \in EqOperands, r \in EqOperands}

Literals == {ObjLit(<<>>), ObjLit(<<PropAssign("a", Num1)>>), ArrLit(<<>>), ArrLit(<<Num1, IdN>>)}

LiteralAssignments == {B("EqualsToken", l, r) : l \in {IdP, IdD, IdF, IdU, Prop(IdP, "a", "struct")}, r \in Literals}

MethodCalls ==
    {Call(Prop(o, m, "void *"), args, "int16_t") :
        o \in {Id("console", "void *"), IdD, IdF, IdN, IdU}, m \in {"log", "push", "pop"}, args \in ArgLists}
    \cup {Call(Prop(Id("console", "void *"), "log", "void *"), <<StrA, Prop(x, "length", "int16_t")>>, "int16_t") : x \in {IdD, IdF}}

FunctionCalls == {Call(Id("g", "void *"), args, "int16_t") : args \in ArgLists}

PropertyAccesses ==
    {Prop(x, "length", "int16_t") : x \in {IdN, IdS, IdD, IdF, IdP, IdU}}
    \cup {Prop(IdP, "a", "int16_t"), Prop(IdD, "a", "int16_t"), Prop(Call(Id("g", "void *"), <<>>, "array"), "length", "int16_t")}

ElementAccesses == {Elem(x, k, "int16_t") : x \in {IdD, IdF, IdP, IdU}, k \in {Num1, StrA, IdN}}

Unaries ==
    {Prefix("ExclamationToken", e, "uint8_t") : e \in {IdN, IdS, StrA, B("PlusToken", IdS, StrA)}}
    \cup {Prefix("MinusToken", e, "int16_t") : e \in {IdN, B("PercentToken", IdN, Num1)}}
    \cup {Postfix(op, IdN) : op \in {"PlusPlusToken", "MinusMinusToken"}}

Keywords == {Tok("TrueKeyword"), Tok("FalseKeyword"), Tok("NullKeyword")}

Expr1 ==
    Operands \cup Bins \cup Equalities \cup LiteralAssignments \cup MethodCalls \cup FunctionCalls
    \cup PropertyAccesses \cup ElementAccesses \cup Unaries \cup Keywords \cup Literals

\* expressions nested in a node the walker does not descend into, or in another expression
Inner == {B("EqualsToken", IdN, Num1), B("EqualsToken", IdP, ObjLit(<<PropAssign("a", Num1)>>)), B("PercentToken", IdN, Num1), IdN}

Expr2 ==
    {Paren(e) : e \in Inner}
    \cup {B("PlusToken", IdN, e) : e \in Inner \ {IdN}}
    \cup {B("EqualsToken", IdN, e) : e \in Inner \ {IdN}}
    \cup {Call(Id("g", "void *"), <<e>>, "int16_t") : e \in Inner \ {IdN}}
    \cup {B("PercentToken", Paren(e), Num1) : e \in Inner}

Increment == ExprStmt(Postfix("PlusPlusToken", IdN))

ForInStmt == ForIn(DeclList(<<VarDecl("m", NoNode)>>), IdP, Block(<<>>))

\* the initializers a declaration of each name may have
Declarations ==
    {VarDecl("n", e) : e \in {NoNode, Num1, B("PlusToken", IdN, Num1)}}
    \cup {VarDecl("m", e) : e \in {NoNode, Num1}}
    \cup {VarDecl("s", e) : e \in {NoNode, StrA}}
    \cup {VarDecl("d", e) : e \in {NoNode, ArrLit(<<>>), ArrLit(<<Num1, IdN>>)}}
    \cup {VarDecl("f", e) : e \in {NoNode, ArrLit(<<Num1, IdN>>)}}
    \cup {VarDecl("p", e) : e \in {NoNode, ObjLit(<<PropAssign("a", Num1)>>)}}
    \cup {VarDecl("u", e) : e \in {NoNode, Num1}}

LoopDeclarations ==
    {VarDecl("n", Num1), VarDecl("m", NoNode), VarDecl("s", StrA), VarDecl("d", ArrLit(<<Num1, IdN>>)),
     VarDecl("p", ObjLit(<<PropAssign("a", Num1)>>)), VarDecl("u", Num1)}

DeclLists == UNION {[1..k -> LoopDeclarations] : k \in 1..MaxDecls}

Bodies == {Block(<<>>), Block(<<Increment>>), Increment, ForInStmt, Block(<<ForInStmt, VarStmt(<<VarDecl("m", Num1)>>)>>), Ret(IdN)}

ForStatements ==
    {ForStmt(DeclList(ds), c[1], c[2], body) :
        ds \in DeclLists, c \in {<<NoNode, NoNode>>, <<B("LessThanToken", IdN, Num1), Postfix("PlusPlusToken", IdN)>>},
        body \in {Block(<<>>), Increment}}
    \cup {ForStmt(init, B("LessThanToken", IdN, Num1), Postfix("PlusPlusToken", IdN), Block(<<Increment>>)) :
        init \in {NoNode, B("EqualsToken", IdN, Num1), IdN}}

ForOfStatements ==
    {ForOf(init, iterand, body) :
        init \in {DeclList(<<VarDecl("n", NoNode)>>), IdN},
        iterand \in {IdD, IdF, IdN, IdS, IdU, Call(Id("g", "void *"), <<>>, "array"), ArrLit(<<Num1>>)},
        body \in Bodies}

Conditionals ==
    {IfStmt(c, t, e) :
        c \in {IdN, B("EqualsEqualsToken", IdS, StrA), B("EqualsToken", IdN, Num1), Paren(B("EqualsToken", IdP, ObjLit(<<PropAssign("a", Num1)>>)))},
        t \in Bodies, e \in {NoNode, Increment, Block(<<Increment>>)}}
    \cup {WhileStmt(c, b) : c \in {IdN, B("PercentToken", IdN, Num1)}, b \in Bodies}
    \cup {DoStmt(b, c) : c \in {IdN, B("PercentToken", IdN, Num1)}, b \in Bodies}

Returns == {Ret(e) : e \in {NoNode, IdN, IdP, Prop(IdP, "a", "int16_t"), Elem(IdD, Num1, "int16_t"), B("EqualsToken", IdN, Num1)}}

Statements ==
    {ExprStmt(e) : e \in Expr1 \cup Expr2}
    \cup {VarStmt(<<d>>) : d \in Declarations}
    \cup {VarStmt(<<VarDecl("n", Num1), d>>) : d \in Declarations}
    \cup ForStatements \cup ForOfStatements \cup Conditionals \cup Returns
    \cup {ForInStmt, Block(<<>>), Block(<<Increment>>), Block(<<VarStmt(<<VarDecl("n", Num1)>>)>>), N("EmptyStatement", "", "", <<>>)}

Function(stmts) == Func("g", "int16_t", <<Param("n", "int16_t")>>, stmts)

\* what a single-quoted literal is made of: a letter, a double quote, and the
\* escapes of a single quote, of a double quote and of a backslash
Items == {<<"a">>, <<"\"">>, <<"\\", "'">>, <<"\\", "\"">>, <<"\\", "\\">>}

RECURSIVE Concat(_)

Concat(ss) == IF ss = <<>> THEN <<>> ELSE Head(ss) \o Concat(Tail(ss))

SingleQuoted == {<<"'">> \o Concat(is) \o <<"'">> : is \in UNION {[1..k -> Items] : k \in 0..MaxItems}}

DoubleQuoted == {<<"\"", "a", "\"">>, <<"\"", "'", "\"">>, <<"\"", "a", "\\", "\"", "\"">>, <<"\"", "\\", "'", "\"">>}

StringStatements == {ExprStmt(Str(cs)) : cs \in SingleQuoted \cup DoubleQuoted}

\* a function that declares a local and returns
LocalReturns ==
    {Function(<<VarStmt(<<d>>), r>>) :
        d \in {VarDecl("p", ObjLit(<<PropAssign("a", Num1)>>)), VarDecl("d", ArrLit(<<Num1, IdN>>)), VarDecl("n", Num1)},
        r \in Returns}

Units ==
    {SourceFile(<<Function(<<s>>)>>) : s \in Statements \cup StringStatements}
    \cup {SourceFile(<<f>>) : f \in LocalReturns}
    \cup {SourceFile(<<Function(<<s, Ret(IdN)>>)>>) : s \in ForOfStatements \cup Returns \cup {ForInStmt}}
    \cup {SourceFile(<<Function(<<ForInStmt, s>>)>>) : s \in {ExprStmt(e) : e \in Expr2}}
    \cup {SourceFile(<<s, Func("h", "void", <<>>, <<Increment>>)>>) : s \in {VarStmt(<<d>>) : d \in Declarations}}
    \cup {SourceFile(<<>>), SourceFile(<<Function(<<>>)>>), SourceFile(<<Func("h", "void", <<>>, <<>>)>>)}

(***************************************************************************)
(* The state machine: a fresh Transpiler is given a unit and translates it.*)
(***************************************************************************)
Init ==
    /\ unit \in Units
    /\ cap \in 0..MaxCap
    /\ pc = "ready"
    /\ errors = <<>>
    /\ code = <<>>
    /\ prologue = <<>>
    /\ headers = {}
    /\ iter = 0
    /\ visits = <<>>
    /\ thrown = FALSE
    /\ result = [kind |-> "none", text |-> ""]
    /\ calls = 0

Transpile ==
    /\ pc = "ready"
    /\ LET st == Walk(unit, [errors |-> errors, code |-> code, prologue |-> prologue, headers |-> headers,
                             iter |-> iter, visits |-> <<>>, thrown |-> FALSE])
       IN  /\ errors' = st.errors
           /\ code' = st.code
           /\ prologue' = st.prologue
           /\ headers' = st.headers
           /\ iter' = st.iter
           /\ visits' = st.visits
           /\ thrown' = st.thrown
           /\ result' = TranspileResult(st)
    /\ pc' = "done"
    /\ calls' = calls + 1
    /\ UNCHANGED <<unit, cap>>

Next == Transpile

Spec == Init /\ [][Next]_vars

(***************************************************************************)
(* One Transpiler given several units in turn: the fields of the instance  *)
(* (errors, and the emitter, type helper and memory manager it owns) are   *)
(* set at construction only.                                               *)
(***************************************************************************)
ReuseUnits ==
    {SourceFile(<<Function(<<s>>)>>) :
        s \in {Increment, Ret(IdN), ForInStmt, ExprStmt(B("PercentToken", IdN, Num1)),
                ExprStmt(Paren(IdN)), VarStmt(<<VarDecl("n", Num1)>>),
                ForOf(DeclList(<<VarDecl("n", NoNode)>>), IdD, Increment)}}

InitReuse == Init /\ unit \in ReuseUnits

\* the caller hands the next unit to the same Transpiler
NextUnit ==
    /\ pc = "done"
    /\ calls < MaxCalls
    /\ unit' \in ReuseUnits
    /\ pc' = "ready"
    /\ UNCHANGED <<cap, errors, code, prologue, headers, iter, visits, thrown, result, calls>>

NextReuse == Transpile \/ NextUnit

SpecReuse == InitReuse /\ [][NextReuse]_vars

(***************************************************************************)
(* The properties of the translation.  They are stated over the input      *)
(* unit, the emitted pieces and the record of the calls of transpileNode.  *)
(***************************************************************************)
RECURSIVE Occurrences(_, _)

RECURSIVE OccurrencesOfAll(_, _)

\* every node of the tree below node, with the kind of its parent, in source order
Occurrences(node, pk) == <<[node |-> node, pk |-> pk]>> \o OccurrencesOfAll(node.kids, node.kind)

OccurrencesOfAll(nodes, pk) ==
    IF nodes = <<>> THEN <<>> ELSE Occurrences(Head(nodes), pk) \o OccurrencesOfAll(Tail(nodes), pk)

\* how many elements of the sequence s are equal to x
CountOf(s, x) == Cardinality({i \in DOMAIN s : s[i] = x})

\* transpile has returned a string
Returned == pc = "done" /\ result.kind # "exception"

\* C1: transpile returns the result of emitter.finalize() if and only if no error was
\* recorded during the walk; if at least one error was recorded it returns exactly the
\* recorded messages, in the order recorded, joined by newlines, and finalize is not
\* called.
C1_ReturnContract ==
    Returned =>
        /\ (result.kind = "finalize") <=> (errors = <<>>)
        /\ errors # <<>> => result.kind = "errors" /\ result.text = JoinLines(errors)
        /\ errors = <<>> =>
              result.text = Finalize([headers |-> headers, prologue |-> prologue, code |-> code])

C1_Witness ==
    /\ Returned
    /\ Len(errors) >= 2
    /\ errors[1] # errors[2]
    /\ result.kind = "errors"

\* C2: errors are accumulated, never thrown: for every input unit transpile runs to
\* completion and returns a string.
C2_NeverThrows == pc = "done" => ~thrown /\ result.kind \in {"finalize", "errors"}

\* the kinds transpileNode has a case for, and the kinds its cases consume themselves
HandledKinds ==
    {"FunctionDeclaration", "VariableStatement", "VariableDeclaration", "Block", "IfStatement",
     "ForStatement", "ForOfStatement", "ForInStatement", "WhileStatement", "DoStatement",
     "ReturnStatement", "ExpressionStatement", "CallExpression", "PropertyAccessExpression",
     "ElementAccessExpression", "BinaryExpression", "PrefixUnaryExpression",
     "PostfixUnaryExpression", "TrueKeyword", "FalseKeyword", "NullKeyword", "NumericLiteral",
     "StringLiteral", "Identifier", "SourceFile", "SyntaxList", "EndOfFileToken", "SemicolonToken",
     "VariableDeclarationList", "Parameters", "Parameter", "PropertyAssignment",
     "ObjectLiteralExpression", "ArrayLiteralExpression", "None"}

AssignmentError == "Assignments inside expressions are not yet supported."

\* the message an unsupported construct is reported with; "" for a supported one
ExpectedError(o) ==
    CASE o.node.kind = "ForInStatement" -> "For-in statement is not yet supported!"
      [] o.node.kind = "ForOfStatement" /\ o.node.kids[2].kind # "Identifier" ->
            "Unsupported type of expression as array in for of: " \o GetText(o.node)
      [] o.node.kind = "BinaryExpression" /\ o.node.text = "EqualsToken" /\ o.pk # "ExpressionStatement" ->
            AssignmentError
      [] o.node.kind = "BinaryExpression" /\ o.node.text \notin SupportedOperators ->
            "Unsupported operator: " \o TokenText(o.node.text)
      [] o.node.kind \notin HandledKinds -> "Non-supported node: " \o o.node.kind
      [] OTHER -> ""

\* C3: error accumulation is complete: every unsupported construct occurring anywhere
\* in the input unit, also one nested in another unsupported node or in the body of a
\* rejected for-of, has an error message of its own in the returned error list.
C3_ErrorsComplete ==
    Returned =>
        LET occ == Occurrences(unit, "None")
            unsupported == {i \in DOMAIN occ : ExpectedError(occ[i]) # ""}
        IN  /\ unsupported # {} => result.kind = "errors" /\ result.text = JoinLines(errors)
            /\ \A i \in unsupported :
                  CountOf(errors, ExpectedError(occ[i]))
                      >= Cardinality({j \in unsupported : ExpectedError(occ[j]) = ExpectedError(occ[i])})

DeclaredNames == {"n", "m", "s", "d", "f", "p", "u"}

\* the text of the C declaration of a name
Declaration(name) == DeclarationText(GetVariableInfo(name), name, cap)

\* the number of declarations of the name in a sequence of occurrences or visits
DeclarationsOf(name, occ) ==
    Cardinality({i \in DOMAIN occ : occ[i].node.kind = "VariableDeclaration" /\ occ[i].node.text = name})

\* the walk does not descend into a for-in, a for-of it rejects or a node it has no case for
Skipped(node) ==
    \/ node.kind = "ForInStatement"
    \/ node.kind = "ForOfStatement" /\ node.kids[2].kind # "Identifier"
    \/ node.kind \notin HandledKinds

RECURSIVE Translated(_, _)

RECURSIVE TranslatedOfAll(_, _)

\* the occurrences below node that are not inside a skipped node
Translated(node, pk) ==
    IF Skipped(node) THEN <<>>
    ELSE <<[node |-> node, pk |-> pk]>> \o TranslatedOfAll(node.kids, node.kind)

TranslatedOfAll(nodes, pk) ==
    IF nodes = <<>> THEN <<>> ELSE Translated(Head(nodes), pk) \o TranslatedOfAll(Tail(nodes), pk)

\* no declaration text is among the pieces emitted to the function body; the text of
\* the parameter list between "(" and ")\n" of a signature is not a variable declaration
NoDeclarationInBody ==
    \A i \in DOMAIN code : \A name \in DeclaredNames :
        code[i] = Declaration(name) => i > 1 /\ i < Len(code) /\ code[i - 1] = "(" /\ code[i + 1] = ")\n"

\* C4 (as stated): for every variable declaration in the input, the walk emits its C
\* declaration exactly once, through emitToBeginningOfFunction and never into the body.
C4_EveryDeclarationOnce ==
    Returned =>
        /\ \A name \in DeclaredNames :
              CountOf(prologue, Declaration(name)) = DeclarationsOf(name, Occurrences(unit, "None"))
        /\ NoDeclarationInBody

\* C4 (amended): every variable declaration the walk reaches is visited once and its C
\* declaration is emitted exactly once, through emitToBeginningOfFunction and never
\* into the body; a walk that returns reaches exactly the declarations that are not
\* inside a for-in, a for-of with a non-identifier iterand or a node of unsupported kind.
C4_ReachedDeclarationOnce ==
    pc = "done" =>
        /\ \A name \in DeclaredNames :
              /\ CountOf(prologue, Declaration(name)) = DeclarationsOf(name, visits)
              /\ DeclarationsOf(name, visits) <= DeclarationsOf(name, Occurrences(unit, "None"))
              /\ Returned => DeclarationsOf(name, visits) = DeclarationsOf(name, Translated(unit, "None"))
        /\ NoDeclarationInBody

C4_Witness ==
    /\ Returned
    /\ \E i \in DOMAIN visits :
          /\ visits[i].node.kind = "ForStatement"
          /\ visits[i].node.kids[1].kind = "VariableDeclarationList"
          /\ Len(visits[i].node.kids[1].kids) = 2
          /\ visits[i].node.kids[1].kids[2].text = "d"
    /\ CountOf(prologue, Declaration("d")) = 1

\* the functions of the unit, in source order
FunctionsOf(u) == SelectSeq(u.kids[1].kids, LAMBDA s : s.kind = "FunctionDeclaration")

\* the positions of the piece t in the body, in order
RECURSIVE PositionsFrom(_, _)

PositionsFrom(t, i) ==
    IF i > Len(code) THEN <<>>
    ELSE (IF code[i] = t THEN <<i>> ELSE <<>>) \o PositionsFrom(t, i + 1)

IsDestructors(t) == \E k \in {"FunctionDeclaration", "ReturnStatement", "SourceFile"}, n \in {"", "g", "h"} : t = "@destructors:" \o k \o ":" \o n

\* the names of the variables declared in fn whose storage is allocated
Allocations(fn) ==
    LET occ == Occurrences(fn, "SourceFile")
    IN  {occ[i].node.text : i \in {j \in DOMAIN occ : /\ occ[j].node.kind = "VariableDeclaration"
                                                       /\ GetVariableInfo(occ[j].node.text).requiresAllocation}}

\* the names that are the subject of a return of fn: these allocations escape
ReturnSubjects(fn) ==
    LET occ == Occurrences(fn, "SourceFile")
    IN  {occ[i].node.kids[1].text : i \in {j \in DOMAIN occ : /\ occ[j].node.kind = "ReturnStatement"
                                                               /\ occ[j].node.kids[1].kind = "Identifier"}}

\* the variables the destructors of fn release: its allocations that do not escape
Released(fn) == Allocations(fn) \ ReturnSubjects(fn)

\* C5: every emitted return is preceded by exactly one destructor insertion, made for
\* the return statement before the text "return"; the closing brace of a function is
\* preceded by one insertion for the function if and only if the last statement of its
\* body is not a return statement.
C5_OneInsertionPerExit ==
    pc = "done" =>
        /\ \A i \in DOMAIN code : code[i] = "return" =>
              /\ i > 1 /\ code[i - 1] = Destructors(Ret(NoNode))
              /\ i > 2 => ~IsDestructors(code[i - 2])
        /\ LET ends == PositionsFrom("@finalizeFunction", 1)
               fs == FunctionsOf(unit)
           IN  /\ Len(ends) <= Len(fs)
               /\ \A k \in DOMAIN ends :
                     LET e == ends[k]
                         stmts == fs[k].kids[2].kids
                     IN  /\ e > 2 /\ code[e - 1] = "}\n"
                         /\ IsDestructors(code[e - 2]) <=> stmts[Len(stmts)].kind # "ReturnStatement"
                         /\ IsDestructors(code[e - 2]) => code[e - 2] = Destructors(fs[k]) /\ ~IsDestructors(code[e - 3])

C5_Witness ==
    /\ Returned
    /\ \E i, j \in DOMAIN code :
          /\ code[i] = "return" /\ code[i - 1] = Destructors(Ret(NoNode))
          /\ i < j /\ code[j] = Destructors(Function(<<>>)) /\ code[j + 1] = "}\n"
    /\ \E s \in Statements : unit = SourceFile(<<Function(<<s>>)>>) /\ s.kind = "IfStatement"

\* a call of console.log, or of push or pop on an identifier that names an array
IsBuiltInCall(node) ==
    /\ node.kind = "CallExpression"
    /\ node.kids[1].kind = "PropertyAccessExpression"
    /\ node.kids[1].kids[1].kind = "Identifier"
    /\ \/ node.kids[1].kids[1].text = "console" /\ node.kids[1].text = "log"
       \/ node.kids[1].text \in {"push", "pop"} /\ IsArrayType(GetVariableInfo(node.kids[1].kids[1].text))

\* the pieces after position at are the generic emission <id> -> <name>
GenericAccessAt(at, id, name) ==
    at + 3 <= Len(code) /\ code[at + 1] = id /\ code[at + 2] = "->" /\ code[at + 3] = name

\* C6: every call of console.log, of <id>.push or of <id>.pop on an array-typed
\* variable, with any number of arguments, and every == of two char * operands is
\* emitted in its specialised form (printf, ARRAY_PUSH, ARRAY_POP, strcmp) and never
\* on the generic path.
C6_BuiltInsReplaced ==
    pc = "done" =>
        \A i \in DOMAIN visits :
            LET v == visits[i]
                callee == v.node.kids[1]
            IN  /\ IsBuiltInCall(v.node) =>
                      /\ ~GenericAccessAt(v.at, callee.kids[1].text, callee.text)
                      /\ callee.text = "push" => v.at < Len(code) /\ code[v.at + 1] = "ARRAY_PUSH("
                      /\ callee.text = "pop" => v.at < Len(code) /\ code[v.at + 1] = "ARRAY_POP("
                      /\ callee.text = "log" /\ Len(v.node.kids) > 1 => v.at < Len(code) /\ code[v.at + 1] = "printf("
                /\ (/\ v.node.kind = "BinaryExpression" /\ v.node.text = "EqualsEqualsToken"
                    /\ v.node.kids[1].ty = "char *" /\ v.node.kids[2].ty = "char *") =>
                      v.at < Len(code) /\ code[v.at + 1] = "strcmp("

\* <id>.length on an identifier that names an array
IsArrayLength(node) ==
    /\ node.kind = "PropertyAccessExpression"
    /\ node.text = "length"
    /\ node.kids[1].kind = "Identifier"
    /\ IsArrayType(GetVariableInfo(node.kids[1].text))

\* C7: for every property access <id>.length where <id> has an array type, the emitted
\* text is <id>.size when the variable is a dynamic array and the decimal value of the
\* capacity otherwise; it is never a call and never the generic <id>->length.
C7_LengthLowering ==
    pc = "done" =>
        \A i \in DOMAIN visits :
            LET v == visits[i]
                id == v.node.kids[1].text
                next == IF i < Len(visits) THEN visits[i + 1].at ELSE Len(code)
            IN  IsArrayLength(v.node) =>
                    /\ ~GenericAccessAt(v.at, id, "length")
                    /\ IF GetVariableInfo(id).isDynamicArray
                       THEN v.at + 3 <= Len(code) /\ SubSeq(code, v.at + 1, v.at + 3) = <<id, ".", "size">>
                       ELSE v.at + 1 <= Len(code) /\ code[v.at + 1] = ToDecimal(cap)
                    /\ v.at + 1 <= Len(code) /\ code[v.at + 1] # "js_get("
                    /\ LET n == IF GetVariableInfo(id).isDynamicArray THEN 3 ELSE 1
                       IN  v.at + n < Len(code) => code[v.at + n + 1] # "("

C7_Witness ==
    /\ Returned
    /\ cap = MaxCap
    /\ \E i \in DOMAIN visits :
          /\ IsArrayLength(visits[i].node)
          /\ visits[i].pk = "CallExpression"
          /\ ~GetVariableInfo(visits[i].node.kids[1].text).isDynamicArray
          /\ code[visits[i].at + 1] = ToDecimal(MaxCap)

\* C8: whenever the input contains an assignment used as a sub-expression (its parent
\* is not an expression statement), also when it is wrapped in parentheses, the output
\* of transpile is the error "Assignments inside expressions are not yet supported.".
C8_InnerAssignmentReported ==
    Returned =>
        LET occ == Occurrences(unit, "None")
        IN  (\E i \in DOMAIN occ : ExpectedError(occ[i]) = AssignmentError) =>
                result.kind = "errors" /\ CountOf(errors, AssignmentError) >= 1

\* the piece after position at is the header of a for-of loop
ForOfLoopAt(at, arrayName) ==
    /\ at < Len(code)
    /\ \E k \in 1..iter, size \in {arrayName \o ".size", ToDecimal(cap), "undefined"} :
          code[at + 1] = ForOfHeader(IteratorName(k), size)

\* C9: a for-of is translated only when its iterand is an identifier naming an
\* array-typed variable, with the bound <arr>.size for a dynamic array and the static
\* capacity otherwise; in every other case an error is recorded and no loop text is
\* emitted for the statement.
C9_ForOfOnlyOverArrays ==
    Returned =>
        \A i \in DOMAIN visits :
            LET v == visits[i]
                iterand == v.node.kids[2]
                info == GetVariableInfoOf(iterand)
            IN  v.node.kind = "ForOfStatement" =>
                    IF iterand.kind = "Identifier" /\ IsArrayType(info)
                    THEN /\ v.at < Len(code)
                         /\ \E k \in 1..iter :
                               code[v.at + 1] = ForOfHeader(IteratorName(k),
                                   IF info.isDynamicArray THEN iterand.text \o ".size" ELSE ToDecimal(cap))
                    ELSE /\ errors # <<>>
                         /\ ~ForOfLoopAt(v.at, iterand.text)

EmptyWalk ==
    [errors |-> <<>>, code |-> <<>>, prologue |-> <<>>, headers |-> {}, iter |-> 0, visits |-> <<>>, thrown |-> FALSE]

\* the pieces a declaration emits to the body when it is transpiled as a statement
Standalone(decl) == T(decl, "VariableDeclarationList", EmptyWalk).code

RECURSIVE StandaloneAll(_)

StandaloneAll(decls) ==
    IF decls = <<>> THEN <<>> ELSE Standalone(Head(decls)) \o StandaloneAll(Tail(decls))

HasAfter(t, i) == \E j \in (i + 1)..Len(code) : code[j] = t

\* the position of the first piece t after position i
FirstAfter(t, i) == CHOOSE j \in (i + 1)..Len(code) : code[j] = t /\ \A k \in (i + 1)..(j - 1) : code[k] # t

WithoutSemicolon(ps) == IF ps # <<>> /\ ps[Len(ps)] = ";\n" THEN SubSeq(ps, 1, Len(ps) - 1) ELSE ps

\* the visit is of a for statement with n >= 1 declarations whose header was emitted
IsDeclaringFor(v) ==
    /\ v.node.kind = "ForStatement"
    /\ v.node.kids[1].kind = "VariableDeclarationList"
    /\ HasAfter("for (", v.at)
    /\ HasAfter(")\n", FirstAfter("for (", v.at))

\* C10: for a for statement whose initializer declares n >= 1 variables, the first
\* n-1 declarations are fully emitted before "for ("; the initializer assignment of the
\* last one is between "for (" and the first ";" if and only if the variable does not
\* require allocation, otherwise it too is emitted before "for (" and the slot is
\* empty; the header has exactly two ";" and no ";\n".
C10_ForHoisting ==
    pc = "done" =>
        \A i \in DOMAIN visits :
            IsDeclaringFor(visits[i]) =>
                LET v == visits[i]
                    decls == v.node.kids[1].kids
                    n == Len(decls)
                    h == FirstAfter("for (", v.at)
                    e == FirstAfter(")\n", h)
                    semi == FirstAfter(";", h)
                    hoistLast == GetVariableInfo(decls[n].text).requiresAllocation
                IN  /\ SubSeq(code, v.at + 1, h - 1)
                          = StandaloneAll(IF hoistLast THEN decls ELSE SubSeq(decls, 1, n - 1))
                    /\ SubSeq(code, h + 1, semi - 1)
                          = (IF hoistLast THEN <<>> ELSE WithoutSemicolon(Standalone(decls[n])))
                    /\ Cardinality({j \in (h + 1)..(e - 1) : code[j] = ";"}) = 2
                    /\ \A j \in h..e : code[j] # ";\n"

C10_Witness ==
    /\ Returned
    /\ \E i \in DOMAIN visits :
          /\ IsDeclaringFor(visits[i])
          /\ Len(visits[i].node.kids[1].kids) = 2
          /\ visits[i].node.kids[1].kids[1].text = "d"
          /\ visits[i].node.kids[1].kids[2].text = "n"
          /\ visits[i].node.kids[2].kind # "None"
          /\ code[FirstAfter("for (", visits[i].at) + 1] = "n"
          /\ code[FirstAfter("for (", visits[i].at) - 1] = ";\n"

\* visit j is of a child that the call recorded as visit i transpiled
IsChildVisit(i, j) ==
    /\ j > i
    /\ visits[j].pk = visits[i].node.kind
    /\ visits[j].at >= visits[i].at
    /\ visits[j].end <= visits[i].end
    /\ \E k \in DOMAIN visits[i].node.kids : visits[i].node.kids[k] = visits[j].node

\* the pieces at positions a..b begin with an opening and end with a closing brace
Braced(a, b) == a >= 1 /\ a < b /\ b <= Len(code) /\ code[a] = "{\n" /\ code[b] = "}\n"

\* C11: for every if, while and do-while statement, each body (then-branch,
\* else-branch, loop body) is emitted enclosed in braces, also when the source body
\* is a single statement that is not a block.
C11_BodiesBraced ==
    Returned =>
        \A i \in DOMAIN visits :
            LET v == visits[i]
            IN  /\ v.node.kind = "IfStatement" =>
                      \A j \in DOMAIN visits :
                          (IsChildVisit(i, j) /\ code[visits[j].at] \in {")\n", "else\n"}) =>
                              Braced(visits[j].at + 1, visits[j].end)
                /\ v.node.kind = "WhileStatement" =>
                      /\ i < Len(visits) /\ IsChildVisit(i, i + 1)
                      /\ code[visits[i + 1].end + 1] = ")"
                      /\ Braced(visits[i + 1].end + 2, v.end)
                /\ v.node.kind = "DoStatement" =>
                      /\ code[v.at + 1] = "do {\n"
                      /\ \E j \in DOMAIN visits :
                            /\ IsChildVisit(i, j)
                            /\ visits[j].node = v.node.kids[2]
                            /\ code[visits[j].at] = "} while ("
                            /\ visits[j].end + 2 = v.end

\* the visit is of an == whose call returned
IsEquality(v) == v.node.kind = "BinaryExpression" /\ v.node.text = "EqualsEqualsToken" /\ v.end > 0

\* the pieces of visit i, whose first operand is visit i + 1, are fn(left, right)tail
IsCallOf(i, fn, tail) ==
    /\ code[visits[i].at + 1] = fn
    /\ visits[i + 1].at = visits[i].at + 1
    /\ code[visits[i + 1].end + 1] = ", "
    /\ code[visits[i].end] = tail

\* the pieces of visit i, whose first operand is visit i + 1, are left == right
IsPlainEquality(i) ==
    /\ visits[i + 1].at = visits[i].at
    /\ code[visits[i + 1].end + 1] = " == "
    /\ code[visits[i].end] \notin {")", ") == 0"}

\* C12 (as stated): == is lowered by the operand types: both char * gives
\* strcmp(a, b) == 0 and the string.h header; otherwise, when neither operand is
\* int16_t, js_eq(a, b) and the js_eq header; when at least one operand is int16_t,
\* plain a == b.
C12_EqualityByTypesNeither ==
    pc = "done" =>
        \A i \in DOMAIN visits :
            IsEquality(visits[i]) =>
                LET lt == visits[i].node.kids[1].ty
                    rt == visits[i].node.kids[2].ty
                IN  /\ i < Len(visits)
                    /\ IF lt = "char *" /\ rt = "char *"
                       THEN IsCallOf(i, "strcmp(", ") == 0") /\ "stringh" \in headers
                       ELSE IF lt # "int16_t" /\ rt # "int16_t"
                       THEN IsCallOf(i, "js_eq(", ")") /\ "js_eq" \in headers
                       ELSE IsPlainEquality(i)

\* C12 (amended): both char * gives strcmp(a, b) == 0 and the string.h header;
\* otherwise, when at least one operand is not int16_t, js_eq(a, b) and the js_eq
\* header; only when both operands are int16_t, plain a == b.  The rules apply
\* whatever the parent of the == is.
C12_EqualityByTypes ==
    pc = "done" =>
        \A i \in DOMAIN visits :
            IsEquality(visits[i]) =>
                LET lt == visits[i].node.kids[1].ty
                    rt == visits[i].node.kids[2].ty
                IN  /\ i < Len(visits)
                    /\ IF lt = "char *" /\ rt = "char *"
                       THEN IsCallOf(i, "strcmp(", ") == 0") /\ "stringh" \in headers
                       ELSE IF ~(lt = "int16_t" /\ rt = "int16_t")
                       THEN IsCallOf(i, "js_eq(", ")") /\ "js_eq" \in headers
                       ELSE IsPlainEquality(i) /\ "js_eq" \notin headers

C12_Witness ==
    /\ Returned
    /\ \E i \in DOMAIN visits :
          /\ IsEquality(visits[i])
          /\ visits[i].node.kids[1].ty = "int16_t"
          /\ visits[i].node.kids[2].ty = "struct"
          /\ IsCallOf(i, "js_eq(", ")")

\* the visit is of the declaration of an array variable
IsArrayDeclaration(v) ==
    v.node.kind = "VariableDeclaration" /\ IsArrayType(GetVariableInfo(v.node.text))

\* the last piece of a visit: of the whole emission when the call was left by an exception
LastOf(v) == IF v.end > 0 THEN v.end ELSE Len(code)

\* the piece at q starts an assignment to an element of name: name[k] = ... or name.data[k] = ...
IsElementAssignment(q, name) ==
    /\ q + 2 <= Len(code)
    /\ code[q] \in {name, name \o ".data"}
    /\ \E k \in 0..MaxArgs : code[q + 1] = "[" \o ToDecimal(k) \o "]"
    /\ code[q + 2] = " = "

IsAllocator(q, name) ==
    \E P \in 0..(2 * MaxCap + 4), L \in 0..MaxCap :
        code[q] = "ARRAY_CREATE(" \o name \o ", " \o ToDecimal(P) \o ", " \o ToDecimal(L) \o ")"

\* C13: the declaration of an array of capacity c emits ARRAY_CREATE(name, P, L)
\* with L = c and P = max(2c, 4), so P >= 4 and P >= L; the allocator comes first,
\* then the request to register name.data as a global pointer, and only then the
\* assignments of the initializer's elements.
C13_ArrayAllocation ==
    pc = "done" =>
        \A i \in DOMAIN visits :
            IsArrayDeclaration(visits[i]) =>
                LET v == visits[i]
                    name == v.node.text
                    elems == v.node.kids[1].kids
                IN  /\ \E P \in 0..(2 * MaxCap + 4) :
                          /\ P >= 2 * cap /\ P >= 4 /\ P \in {2 * cap, 4} /\ P >= cap
                          /\ code[v.at + 1] = "ARRAY_CREATE(" \o name \o ", " \o ToDecimal(P) \o ", " \o ToDecimal(cap) \o ")"
                    /\ code[v.at + 2] = ";\n"
                    /\ code[v.at + 3] = "@globalptr:" \o name \o ".data"
                    /\ \A q \in (v.at + 1)..LastOf(v) :
                          /\ IsElementAssignment(q, name) => q > v.at + 3
                          /\ IsAllocator(q, name) => q = v.at + 1
                          /\ code[q] = "@globalptr:" \o name \o ".data" => q = v.at + 3
                    /\ (v.node.kids[1].kind = "ArrayLiteralExpression" /\ elems # <<>>)
                          => IsElementAssignment(v.at + 4, name)

C13_Witness ==
    /\ Returned
    /\ cap = MaxCap
    /\ \E i \in DOMAIN visits :
          /\ IsArrayDeclaration(visits[i])
          /\ visits[i].node.text = "d"
          /\ code[visits[i].at + 1] = "ARRAY_CREATE(d, " \o ToDecimal(2 * MaxCap) \o ", " \o ToDecimal(MaxCap) \o ")"
          /\ code[visits[i].at + 3] = "@globalptr:d.data"
          /\ IsElementAssignment(visits[i].at + 4, "d")

RECURSIVE BackslashesBefore(_, _)

\* the length of the run of backslashes that ends right before position k of cs
BackslashesBefore(cs, k) ==
    IF k > 1 /\ cs[k - 1] = "\\" THEN 1 + BackslashesBefore(cs, k - 1) ELSE 0

\* the positions of cs between its first and its last character
Interior(cs) == 2..(Len(cs) - 1)

\* C14: a double-quoted literal is emitted unchanged; a single-quoted literal
\* over letters, quotes and backslashes is emitted between double quotes, with
\* every interior double quote escaped (an odd number of backslashes before it)
\* and every single quote bare (an even number of backslashes before it).
C14_StringConversion ==
    pc = "done" =>
        \A i \in DOMAIN visits :
            visits[i].node.kind = "StringLiteral" =>
                LET cs == visits[i].node.chars
                    r == ConvertString(cs)
                IN  /\ code[visits[i].at + 1] = Flatten(r)
                    /\ cs[1] = "\"" => r = cs
                    /\ cs[1] = "'" =>
                          /\ Len(r) >= 2 /\ r[1] = "\"" /\ r[Len(r)] = "\""
                          /\ \A k \in Interior(r) :
                                /\ r[k] = "\"" => BackslashesBefore(r, k) % 2 = 1
                                /\ r[k] = "'" => BackslashesBefore(r, k) % 2 = 0

\* the same for the literals that hold no escaped double quote and no
\* backslash right before an escaped single quote
C14_PlainLiterals ==
    pc = "done" =>
        \A i \in DOMAIN visits :
            (/\ visits[i].node.kind = "StringLiteral"
             /\ \A k \in DOMAIN visits[i].node.chars :
                    LET cs == visits[i].node.chars
                    IN  /\ (cs[k] = "\"" /\ k > 1 /\ k < Len(cs)) => BackslashesBefore(cs, k) = 0
                        /\ (cs[k] = "'" /\ k > 1 /\ k < Len(cs)) => BackslashesBefore(cs, k) = 1 /\ (k <= 3 \/ cs[k - 2] # "'"))
            =>  LET cs == visits[i].node.chars
                    r == ConvertString(cs)
                IN  /\ code[visits[i].at + 1] = Flatten(r)
                    /\ cs[1] = "\"" => r = cs
                    /\ cs[1] = "'" =>
                          /\ Len(r) >= 2 /\ r[1] = "\"" /\ r[Len(r)] = "\""
                          /\ \A k \in Interior(r) :
                                /\ r[k] = "\"" => BackslashesBefore(r, k) % 2 = 1
                                /\ r[k] = "'" => BackslashesBefore(r, k) % 2 = 0

\* the messages the occurrence o of an unsupported node kind, operator or
\* construct may be reported with; empty for a supported one
ListedErrors(o) ==
    (IF ExpectedError(o) # "" THEN {ExpectedError(o)} ELSE {})
    \cup (IF o.node.kind = "PrefixUnaryExpression" /\ o.node.text # "ExclamationToken"
          THEN {"Non-supported unary operator: " \o o.node.kind} ELSE {})
    \cup (IF o.node.kind = "PostfixUnaryExpression" /\ o.node.text \notin {"PlusPlusToken", "MinusMinusToken"}
          THEN {"Non-supported postfix unary operator: " \o o.node.kind} ELSE {})
    \cup (IF /\ o.node.kind = "BinaryExpression" /\ o.node.text = "EqualsToken"
             /\ o.node.kids[2].kind \in {"ObjectLiteralExpression", "ArrayLiteralExpression"}
             /\ ~HasInfo(GetVariableInfoOf(o.node.kids[1]))
          THEN {"Only variable, element access or property access are supported as left hand side expression in assignment of "
                    \o o.node.kids[2].kind \o "."}
          ELSE {})

\* C15: no spurious errors: every recorded error is the message of an
\* unsupported node kind, operator or construct that occurs in the unit; so a
\* unit of supported nodes only, blocks included, records no error.
C15_NoSpuriousErrors ==
    Returned =>
        LET occ == Occurrences(unit, "None")
        IN  \A k \in DOMAIN errors : \E i \in DOMAIN occ : errors[k] \in ListedErrors(occ[i])

\* the same for the units that hold no block
C15_WithoutBlocks ==
    (Returned /\ \A i \in DOMAIN Occurrences(unit, "None") : Occurrences(unit, "None")[i].node.kind # "Block") =>
        LET occ == Occurrences(unit, "None")
        IN  \A k \in DOMAIN errors : \E i \in DOMAIN occ : errors[k] \in ListedErrors(occ[i])

\* the functions of the unit the node occurs in
EnclosingFunctions(node) ==
    LET fs == FunctionsOf(unit)
    IN  {fs[k] : k \in {j \in DOMAIN fs : \E i \in DOMAIN Occurrences(fs[j], "SourceFile") :
                                              Occurrences(fs[j], "SourceFile")[i].node = node}}

\* C16: no use after release: in the text of a return statement no piece that
\* names a non-escaping allocated local of the function comes after the
\* destructors that release it.
C16_NoUseAfterRelease ==
    pc = "done" =>
        \A i \in DOMAIN visits :
            visits[i].node.kind = "ReturnStatement" =>
                \A fn \in EnclosingFunctions(visits[i].node) :
                    \A q \in (visits[i].at + 1)..LastOf(visits[i]) :
                        code[q] = Destructors(visits[i].node) =>
                            \A r \in (q + 1)..LastOf(visits[i]) : code[r] \notin Released(fn)

\* the same for the returns whose expression is absent, a number variable or the allocated local itself
C16_ReturnOfSubject ==
    pc = "done" =>
        \A i \in DOMAIN visits :
            (visits[i].node.kind = "ReturnStatement" /\ visits[i].node.kids[1].kind \in {"None", "Identifier"}) =>
                \A fn \in EnclosingFunctions(visits[i].node) :
                    \A q \in (visits[i].at + 1)..LastOf(visits[i]) :
                        code[q] = Destructors(visits[i].node) =>
                            \A r \in (q + 1)..LastOf(visits[i]) : code[r] \notin Released(fn)

\* a return of the allocated local itself is reached
C16_SubjectReached ==
    /\ Returned
    /\ \E i \in DOMAIN visits :
          /\ visits[i].node = Ret(IdP)
          /\ \E fn \in EnclosingFunctions(visits[i].node) : Allocations(fn) = {"p"} /\ Released(fn) = {}

\* what a newly constructed Transpiler returns for the unit
FreshResult == TranspileResult(Walk(unit, EmptyWalk))

\* C17: translations do not share error state: whatever calls came before on
\* the same Transpiler, a call returns an error list exactly when its own unit
\* records errors, and then the list of its own errors; after a call that
\* recorded an error, a call on a unit without unsupported construct returns C.
C17_NoSharedErrorState ==
    pc = "done" =>
        /\ result.kind = FreshResult.kind
        /\ FreshResult.kind = "errors" => result.text = FreshResult.text

\* the same for the first call on a Transpiler
C17_FirstCall ==
    (pc = "done" /\ calls = 1) =>
        /\ result.kind = FreshResult.kind
        /\ FreshResult.kind = "errors" => result.text = FreshResult.text

====
